---- MODULE Spec2Model ----
(***************************************************************************)
(* Model of the audio copyright detector: AudioService                     *)
(* (src/app/services/audio_service.py) and the request handlers that call  *)
(* it (src/main.py).                                                       *)
(*                                                                         *)
(* Text (filenames, paths, extensions) is a sequence of one-character      *)
(* strings, so that pathlib's suffix/name, str.lower, str.startswith and   *)
(* os.path.abspath are computed character by character.  Scores are        *)
(* integers in thousandths (796 is the float 0.796); comparing two such    *)
(* floats agrees with comparing the integers.                              *)
(***************************************************************************)
EXTENDS Integers, Sequences, FiniteSets, TLC

\* ------------------------------------------------------------------ bounds
MaxResults == 2      \* longest oracle answer
MaxNameLen == 6      \* longest filename handed to the format gate
MaxScore   == 1000   \* largest raw score, in thousandths
NumWorkers == 2      \* requests that can be in flight together

\* ------------------------------------------------------------ text helpers
UpperLetters ==
  <<"A","B","C","D","E","F","G","H","I","J","K","L","M",
    "N","O","P","Q","R","S","T","U","V","W","X","Y","Z">>

LowerLetters ==
  <<"a","b","c","d","e","f","g","h","i","j","k","l","m",
    "n","o","p","q","r","s","t","u","v","w","x","y","z">>

\* str.lower() on one character
LowerChar(c) ==
  IF \E i \in 1..26 : UpperLetters[i] = c
  THEN LowerLetters[CHOOSE i \in 1..26 : UpperLetters[i] = c]
  ELSE c

\* str.lower()
Lower(s) == [i \in 1..Len(s) |-> LowerChar(s[i])]

\* str.startswith(prefix)
StartsWith(s, prefix) ==
  /\ Len(prefix) <= Len(s)
  /\ SubSeq(s, 1, Len(prefix)) = prefix

\* 1-based index of the last occurrence of c in s, 0 when there is none
LastIndexOf(s, c) ==
  LET I == {i \in 1..Len(s) : s[i] = c}
  IN  IF I = {} THEN 0 ELSE CHOOSE i \in I : \A j \in I : j <= i

\* Path(p).name : the final component of a path without trailing separator
PathName(p) == SubSeq(p, LastIndexOf(p, "/") + 1, Len(p))

\* Path(p).suffix : from the last dot of the name, unless that dot is the
\* first or the last character of the name
Suffix(p) ==
  LET name == PathName(p)
      i    == LastIndexOf(name, ".")
  IN  IF 1 < i /\ i < Len(name) THEN SubSeq(name, i, Len(name)) ELSE <<>>

\* ------------------------------------------------------------- Format Gate
SUPPORTED_FORMATS ==
  { <<".","m","p","3">>, <<".","f","l","a","c">>, <<".","o","g","g">>,
    <<".","m","4","a">>, <<".","w","a","v">>, <<".","w","m","a">>,
    <<".","a","i","f","f">>, <<".","a","a","c">> }

is_valid_audio_format_CaseSensitive(filename) ==
  Suffix(filename) \in SUPPORTED_FORMATS

is_valid_audio_format(filename) ==
  Lower(Suffix(filename)) \in SUPPORTED_FORMATS

\* ---------------------------------------------------------------- scores
\* round() works on the double nearest to n/1000.  For n ending in 5 that
\* double is almost never the exact tie: these are the n for which
\* round(n/1000, 2) goes up, the other n ending in 5 go down (0.125, 0.375,
\* 0.625 and 0.875 are exact doubles and go to the even neighbour).
TiesRoundingUp ==
  { 5, 25, 35, 55, 65, 85, 95, 115, 135, 165, 195, 225, 255, 265, 275, 315,
    325, 335, 375, 385, 395, 405, 445, 455, 465, 505, 515, 525, 535, 545,
    555, 635, 645, 655, 665, 675, 685, 755, 765, 775, 785, 795, 805, 875,
    885, 895, 905, 915, 925, 935 }

\* round(score, 2), in hundredths
Round2(score) ==
  LET q == score \div 10
      r == score % 10
  IN  IF r > 5 \/ (r = 5 /\ score \in TiesRoundingUp) THEN q + 1 ELSE q

\* ------------------------------------------------ Confidence classification
HIGH_CONFIDENCE   == 800
MEDIUM_CONFIDENCE == 500

_get_confidence_level_OnRounded(score) ==
  IF Round2(score) * 10 >= HIGH_CONFIDENCE THEN "high"
  ELSE IF Round2(score) * 10 >= MEDIUM_CONFIDENCE THEN "medium"
  ELSE "low"

_get_confidence_level(score) ==
  IF score >= HIGH_CONFIDENCE THEN "high"
  ELSE IF score >= MEDIUM_CONFIDENCE THEN "medium"
  ELSE "low"

\* ------------------------------------------------------------------ paths
\* tempfile.gettempdir()
TempDir == <<"/","t","m","p">>

\* working directories of the server process: unrelated to the scratch
\* directory, a sibling whose name begins with the scratch directory's
\* name, and a directory inside the scratch directory
Cwds ==
  { <<"/","s","r","v">>, <<"/","t","m","p","2">>, <<"/","t","m","p","/","w">> }

INPUT_PATH == <<"a","p","p","/","d","a","t","a","/","i","n","p","u","t","s","/">>

\* filenames a request can carry
Filenames ==
  { <<"s",".","a","a","c">>, <<"S",".","W","A","V">>, <<"n",".","t","x","t">> }

\* files present under INPUT_PATH when the server starts
InputFiles == { <<"s",".","a","a","c">>, <<"n",".","t","x","t">> }

HexDigits ==
  <<"0","1","2","3","4","5","6","7","8","9","a","b","c","d","e","f">>

\* values of os.urandom(8).hex(), one per request that can be in flight
RandomHex == { <<HexDigits[i]>> : i \in 1..NumWorkers }

\* os.path.join(self.temp_dir, f"audio_{hex}{file_ext}")
TempPath(hex, file_ext) ==
  TempDir \o <<"/">> \o <<"a","u","d","i","o","_">> \o hex \o file_ext

\* ------------------------------------------------------------- the oracle
\* tuples (score, recording_id, title, artist) acoustid.match can yield
OracleTuples ==
  { [score |-> 900, recording_id |-> "r1", title |-> "",        artist |-> "Artist A"],
    [score |-> 600, recording_id |-> "r2", title |-> "Title B", artist |-> "Artist B"],
    [score |-> 796, recording_id |-> "r3", title |-> "Title C", artist |-> ""],
    [score |-> 450, recording_id |-> "r4", title |-> "Title D", artist |-> "Artist D"],
    [score |-> 800, recording_id |-> "r5", title |-> "",        artist |-> ""] }

Messages == { "fingerprint calculation failed", "status: error" }

NoAnswer == [kind |-> "none", msg |-> "", results |-> <<>>]

SeqsUpTo(S, n) == UNION { [1..k -> S] : k \in 0..n }

\* what one call of acoustid.match can do: raise, or return a sequence
Outcomes(tuples, msgs, n) ==
  { [kind |-> "raise", msg |-> m, results |-> <<>>] : m \in msgs }
  \cup { [kind |-> "ok", msg |-> "", results |-> r] : r \in SeqsUpTo(tuples, n) }

SeqOutcomes == Outcomes(OracleTuples, Messages, MaxResults)

ConcOutcomes ==
  Outcomes({ t \in OracleTuples : t.recording_id = "r2" },
           { "status: error" }, 1)

\* ----------------------------------------------------------------- state
Workers == 1..NumWorkers

VARIABLES
  api_key,        \* self.api_key ("" when ACOUSTID_API_KEY is not set)
  cwd,            \* working directory of the process
  fs,             \* absolute paths of the files that exist
  pc,             \* where each worker's request stands
  kind,           \* "upload" (detect_upload) or "detect" (detect_copyright)
  filename,       \* the request's filename
  file_path,      \* the path handed to identify_audio
  temp_path,      \* the path save_upload opened, <<>> when none
  answer,         \* what the oracle did for this call
  result,         \* the dict identify_audio built
  ret,            \* how identify_audio left: "returned" or "raised"
  response,       \* HTTP status of the request, 0 while in flight
  removed,        \* paths this request's call removed
  remove_failed,  \* os.remove raised in this request's cleanup
  gate_in, gate_out,     \* a filename and the Format Gate's answer for it
  score_in, cand_out     \* a raw score and the match entry built from it

vars ==
  << api_key, cwd, fs, pc, kind, filename, file_path, temp_path, answer,
     result, ret, response, removed, remove_failed,
     gate_in, gate_out, score_in, cand_out >>

gateVars  == << gate_in, gate_out >>
scoreVars == << score_in, cand_out >>
flowVars  ==
  << api_key, cwd, fs, pc, kind, filename, file_path, temp_path, answer,
     result, ret, response, removed, remove_failed >>

\* os.path.abspath(p) for a normalised p
Abspath(p) ==
  IF p # <<>> /\ p[1] = "/" THEN p ELSE cwd \o <<"/">> \o p

\* os.path.isfile / os.path.exists
Exists(p) == Abspath(p) \in fs

\* ------------------------------------------------- identify_audio, pieces
NoResult ==
  [keys |-> {}, status |-> "none", error |-> "", message |-> "",
   file |-> <<>>, matches |-> <<>>, top_match |-> <<>>]

\* if not self.api_key
NotConfigured_Never(key) == FALSE

NotConfigured(key) == key = ""

credential_error ==
  [NoResult EXCEPT !.keys = {"status", "error"},
                   !.status = "error",
                   !.error = "AcoustID API key not configured"]

not_found_AsError(path) ==
  [NoResult EXCEPT !.keys = {"status", "error", "file"},
                   !.status = "error",
                   !.error = "No match found in AcoustID database",
                   !.file = PathName(path)]

not_found(path) ==
  [NoResult EXCEPT !.keys = {"status", "message", "file"},
                   !.status = "not_found",
                   !.message = "No match found in AcoustID database",
                   !.file = PathName(path)]

\* one element of matches
MatchEntry(t) ==
  [title |-> t.title, artist |-> t.artist, recording_id |-> t.recording_id,
   match_score |-> Round2(t.score),
   confidence |-> _get_confidence_level(t.score)]

IsComplete(m) == m.title # "" /\ m.artist # ""

matches_OnlyComplete(results) ==
  SelectSeq([i \in 1..Len(results) |-> MatchEntry(results[i])], IsComplete)

matches_of(results) == [i \in 1..Len(results) |-> MatchEntry(results[i])]

valid_matches(matches) == SelectSeq(matches, IsComplete)

top_match_First(matches) ==
  IF matches # <<>> THEN <<matches[1]>> ELSE <<>>

\* <<m>> for a top match m, <<>> for None
top_match(matches) ==
  IF valid_matches(matches) # <<>> THEN <<valid_matches(matches)[1]>>
  ELSE IF matches # <<>> THEN <<matches[1]>>
  ELSE <<>>

found(path, results) ==
  [NoResult EXCEPT !.keys = {"status", "file", "matches", "top_match"},
                   !.status = "found",
                   !.file = PathName(path),
                   !.matches = matches_of(results),
                   !.top_match = top_match(matches_of(results))]

except_handler_Propagates(path, msg) ==
  [raising |-> TRUE, result |-> NoResult]

\* except Exception as e
except_handler(path, msg) ==
  [raising |-> FALSE,
   result |-> [NoResult EXCEPT !.keys = {"status", "error", "file"},
                               !.status = "error",
                               !.error = msg,
                               !.file = PathName(path)]]

\* the try block from the oracle's outcome on
after_oracle(path, o) ==
  IF o.kind = "raise" THEN except_handler(path, o.msg)
  ELSE IF o.results = <<>>
       THEN [raising |-> FALSE, result |-> not_found(path)]
       ELSE [raising |-> FALSE, result |-> found(path, o.results)]

\* abs_file.startswith(abs_temp)
should_cleanup(path) == StartsWith(Abspath(path), Abspath(TempDir))

\* ---------------------------------------------------------------- actions
InFlight(w) == pc[w] \notin {"idle", "done"}

\* a worker takes a new request: everything about the previous one is gone
Fresh(w, k, f) ==
  /\ pc[w] \in {"idle", "done"}
  /\ kind' = [kind EXCEPT ![w] = k]
  /\ filename' = [filename EXCEPT ![w] = f]
  /\ temp_path' = [temp_path EXCEPT ![w] = <<>>]
  /\ answer' = [answer EXCEPT ![w] = NoAnswer]
  /\ result' = [result EXCEPT ![w] = NoResult]
  /\ ret' = [ret EXCEPT ![w] = "none"]
  /\ removed' = [removed EXCEPT ![w] = {}]
  /\ remove_failed' = [remove_failed EXCEPT ![w] = FALSE]

\* POST /detect/{filename}, up to the call of identify_audio
detect_copyright(w, f) ==
  /\ Fresh(w, "detect", f)
  /\ file_path' = [file_path EXCEPT ![w] = INPUT_PATH \o f]
  /\ IF ~Exists(INPUT_PATH \o f)
     THEN pc' = [pc EXCEPT ![w] = "done"] /\ response' = [response EXCEPT ![w] = 404]
     ELSE IF ~is_valid_audio_format(f)
     THEN pc' = [pc EXCEPT ![w] = "done"] /\ response' = [response EXCEPT ![w] = 400]
     ELSE pc' = [pc EXCEPT ![w] = "identify"] /\ response' = [response EXCEPT ![w] = 0]
  /\ UNCHANGED << api_key, cwd, fs, gateVars, scoreVars >>

\* POST /detect-upload, up to the call of save_upload
detect_upload(w, f) ==
  /\ Fresh(w, "upload", f)
  /\ file_path' = [file_path EXCEPT ![w] = <<>>]
  /\ IF ~is_valid_audio_format(f)
     THEN pc' = [pc EXCEPT ![w] = "done"] /\ response' = [response EXCEPT ![w] = 400]
     ELSE pc' = [pc EXCEPT ![w] = "save_open"] /\ response' = [response EXCEPT ![w] = 0]
  /\ UNCHANGED << api_key, cwd, fs, gateVars, scoreVars >>

\* save_upload: the name is drawn and the file opened for writing; a
\* 64-bit random name is not one another request in flight is using
save_upload_open(w) ==
  /\ pc[w] = "save_open"
  /\ \E hex \in RandomHex :
       LET p == TempPath(hex, Suffix(filename[w])) IN
       /\ \A v \in Workers \ {w} : InFlight(v) => temp_path[v] # p
       /\ \/ /\ fs' = fs \cup {p}
             /\ temp_path' = [temp_path EXCEPT ![w] = p]
             /\ pc' = [pc EXCEPT ![w] = "save_write"]
             /\ UNCHANGED response
          \/ \* open() raises: save_upload re-raises, detect_upload answers 500
             /\ pc' = [pc EXCEPT ![w] = "done"]
             /\ response' = [response EXCEPT ![w] = 500]
             /\ UNCHANGED << fs, temp_path >>
  /\ UNCHANGED << api_key, cwd, kind, filename, file_path, answer, result,
                  ret, removed, remove_failed, gateVars, scoreVars >>

\* save_upload: await file.read(), buffer.write(contents), return temp_path
save_upload_write(w) ==
  /\ pc[w] = "save_write"
  /\ \/ /\ file_path' = [file_path EXCEPT ![w] = temp_path[w]]
        /\ pc' = [pc EXCEPT ![w] = "identify"]
        /\ UNCHANGED response
     \/ \* read or write raises: save_upload re-raises, detect_upload answers 500
        /\ pc' = [pc EXCEPT ![w] = "done"]
        /\ response' = [response EXCEPT ![w] = 500]
        /\ UNCHANGED file_path
  /\ UNCHANGED << api_key, cwd, fs, kind, filename, temp_path, answer, result,
                  ret, removed, remove_failed, gateVars, scoreVars >>

\* identify_audio: the credential check
identify_audio_enter(w) ==
  /\ pc[w] = "identify"
  /\ IF NotConfigured(api_key)
     THEN /\ result' = [result EXCEPT ![w] = credential_error]
          /\ pc' = [pc EXCEPT ![w] = "finally"]
     ELSE /\ pc' = [pc EXCEPT ![w] = "oracle"]
          /\ UNCHANGED result
  /\ UNCHANGED << api_key, cwd, fs, kind, filename, file_path, temp_path,
                  answer, ret, response, removed, remove_failed,
                  gateVars, scoreVars >>

\* identify_audio: acoustid.match returns or raises, and the result is
\* built; the oracle cannot fingerprint a file that is not there
identify_audio_oracle(w, outcomes) ==
  /\ pc[w] = "oracle"
  /\ \E o \in outcomes :
       /\ ~Exists(file_path[w]) => o.kind = "raise"
       /\ answer' = [answer EXCEPT ![w] = o]
       /\ result' = [result EXCEPT ![w] = after_oracle(file_path[w], o).result]
       /\ ret' = [ret EXCEPT ![w] =
                    IF after_oracle(file_path[w], o).raising
                    THEN "raising" ELSE "none"]
  /\ pc' = [pc EXCEPT ![w] = "finally"]
  /\ UNCHANGED << api_key, cwd, fs, kind, filename, file_path, temp_path,
                  response, removed, remove_failed, gateVars, scoreVars >>

\* identify_audio: the finally block with _cleanup_file, then the return
identify_audio_finally(w) ==
  /\ pc[w] = "finally"
  /\ IF should_cleanup(file_path[w]) /\ Exists(file_path[w])
     THEN \/ /\ fs' = fs \ {Abspath(file_path[w])}
             /\ removed' = [removed EXCEPT ![w] = @ \cup {Abspath(file_path[w])}]
             /\ UNCHANGED remove_failed
          \/ \* os.remove raises: logged by _cleanup_file
             /\ remove_failed' = [remove_failed EXCEPT ![w] = TRUE]
             /\ UNCHANGED << fs, removed >>
     ELSE UNCHANGED << fs, removed, remove_failed >>
  /\ ret' = [ret EXCEPT ![w] = IF @ = "raising" THEN "raised" ELSE "returned"]
  /\ pc' = [pc EXCEPT ![w] = "respond"]
  /\ UNCHANGED << api_key, cwd, kind, filename, file_path, temp_path, answer,
                  result, response, gateVars, scoreVars >>

\* the handler after identify_audio: the result is dumped to OUTPUT_PATH
\* and returned; any exception becomes HTTP 500
respond(w) ==
  /\ pc[w] = "respond"
  /\ \/ ret[w] = "returned" /\ response' = [response EXCEPT ![w] = 200]
     \/ response' = [response EXCEPT ![w] = 500]
  /\ pc' = [pc EXCEPT ![w] = "done"]
  /\ UNCHANGED << api_key, cwd, fs, kind, filename, file_path, temp_path,
                  answer, result, ret, removed, remove_failed,
                  gateVars, scoreVars >>

\* --------------------------------------------------------- specifications
IdleFlow ==
  /\ pc = [w \in Workers |-> "idle"]
  /\ kind = [w \in Workers |-> "none"]
  /\ filename = [w \in Workers |-> <<>>]
  /\ file_path = [w \in Workers |-> <<>>]
  /\ temp_path = [w \in Workers |-> <<>>]
  /\ answer = [w \in Workers |-> NoAnswer]
  /\ result = [w \in Workers |-> NoResult]
  /\ ret = [w \in Workers |-> "none"]
  /\ response = [w \in Workers |-> 0]
  /\ removed = [w \in Workers |-> {}]
  /\ remove_failed = [w \in Workers |-> FALSE]

IdleGate  == gate_in = <<>> /\ gate_out = <<>>
IdleScore == score_in = 0 /\ cand_out = <<>>

\* the server after AudioService() is constructed
Init ==
  /\ api_key \in {"", "key"}
  /\ cwd \in Cwds
  /\ fs = { cwd \o <<"/">> \o INPUT_PATH \o f : f \in InputFiles }
  /\ IdleFlow
  /\ IdleGate
  /\ IdleScore

Step(w, outcomes) ==
  \/ \E f \in Filenames : detect_copyright(w, f)
  \/ \E f \in Filenames : detect_upload(w, f)
  \/ save_upload_open(w)
  \/ save_upload_write(w)
  \/ identify_audio_enter(w)
  \/ identify_audio_oracle(w, outcomes)
  \/ identify_audio_finally(w)
  \/ respond(w)

\* one request at a time
Next == Step(1, SeqOutcomes)

Spec == Init /\ [][Next]_vars

\* requests on all workers, interleaved at every step
NextConc == \E w \in Workers : Step(w, ConcOutcomes)

SpecConc == Init /\ [][NextConc]_vars

\* the Format Gate on every filename over a small alphabet, and on each
\* listed extension in both cases, with and without a stem or a dot
NameAlphabet == {"a", "A", "c", "."}

\* str.upper()
Upper(s) ==
  [i \in 1..Len(s) |->
     IF \E k \in 1..26 : LowerLetters[k] = s[i]
     THEN UpperLetters[CHOOSE k \in 1..26 : LowerLetters[k] = s[i]]
     ELSE s[i]]

ExtensionNames ==
  { <<"m","p","3">>, <<"f","l","a","c">>, <<"o","g","g">>, <<"m","4","a">>,
    <<"w","a","v">>, <<"w","m","a">>, <<"a","i","f","f">>, <<"a","a","c">>,
    <<"t","x","t">> }

SampleNames ==
  UNION { { <<"x",".">> \o e, <<"x",".">> \o Upper(e), <<".">> \o e,
            <<"x">> \o e, <<"x",".">> \o e \o <<"x">>,
            <<"x",".">> \o e \o <<".">>, <<"x",".","y",".">> \o e }
          : e \in ExtensionNames }

InitGate ==
  /\ gate_in \in SeqsUpTo(NameAlphabet, MaxNameLen) \cup SampleNames
  /\ gate_out = <<>>
  /\ api_key = "" /\ cwd = TempDir /\ fs = {}
  /\ IdleFlow
  /\ IdleScore

Gate ==
  /\ gate_out = <<>>
  /\ gate_out' = <<is_valid_audio_format(gate_in)>>
  /\ UNCHANGED << gate_in, flowVars, scoreVars >>

SpecGate == InitGate /\ [][Gate]_vars

\* one match entry from every raw score
InitScore ==
  /\ score_in \in 0..MaxScore
  /\ cand_out = <<>>
  /\ api_key = "" /\ cwd = TempDir /\ fs = {}
  /\ IdleFlow
  /\ IdleGate

Classify ==
  /\ cand_out = <<>>
  /\ \E t \in OracleTuples :
       cand_out' = <<MatchEntry([t EXCEPT !.score = score_in])>>
  /\ UNCHANGED << score_in, flowVars, gateVars >>

SpecScore == InitScore /\ [][Classify]_vars

\* ------------------------------------------------------------ properties
Returned(w) == ret[w] = "returned"

\* C1: identify_audio never leaves by an exception: whatever the credential,
\* the oracle's outcome and the outcome of the deletion, it returns a result
\* whose status is found, not_found or error; when the oracle raised, the
\* result is an error carrying the exception's message and the file's name.
C1_NeverRaises ==
  \A w \in Workers :
    /\ ret[w] \notin {"raising", "raised"}
    /\ Returned(w) => result[w].status \in {"found", "not_found", "error"}
    /\ (Returned(w) /\ answer[w].kind = "raise") =>
         /\ result[w].status = "error"
         /\ result[w].error = answer[w].msg
         /\ "file" \in result[w].keys
         /\ result[w].file = PathName(file_path[w])

C1_Witness ==
  \E w \in Workers :
    /\ Returned(w)
    /\ answer[w].kind = "raise"
    /\ remove_failed[w]
    /\ result[w].status = "error"
    /\ result[w].error = "status: error"

\* C2: a call removes a path only if the scratch directory is an ancestor
\* of its absolute form, so a file outside the scratch directory, also one
\* in a sibling directory whose name begins with the scratch directory's
\* name, survives the call.
C2_RemovesOnlyInsideScratch ==
  \A w \in Workers :
    \A f \in removed[w] : StartsWith(f, TempDir \o <<"/">>)

\* C3: once an upload request is finished, the file save_upload opened for
\* it is gone, on every way out (provided the deletion itself did not fail).
C3_NoScratchFileLeft ==
  \A w \in Workers :
    (pc[w] = "done" /\ kind[w] = "upload" /\ temp_path[w] # <<>>
       /\ ~remove_failed[w])
    => temp_path[w] \notin fs

FirstCompleteOrFirst(r) ==
  LET I == {i \in 1..Len(r) : r[i].title # "" /\ r[i].artist # ""}
  IN  IF I = {} THEN 1 ELSE CHOOSE i \in I : \A j \in I : i <= j

\* C5: a found result has a top match: the first candidate, in the oracle's
\* order, with both a title and an artist, or the very first candidate when
\* there is none; it is an element of matches.
C5_TopMatch ==
  \A w \in Workers :
    result[w].status = "found" =>
      /\ Len(result[w].top_match) = 1
      /\ result[w].top_match[1]
           = result[w].matches[FirstCompleteOrFirst(answer[w].results)]
      /\ \E i \in 1..Len(result[w].matches) :
           result[w].matches[i] = result[w].top_match[1]

C5_Witness ==
  \E w \in Workers :
    /\ Returned(w)
    /\ result[w].status = "found"
    /\ Len(answer[w].results) = 2
    /\ answer[w].results[1].recording_id = "r1"
    /\ answer[w].results[2].recording_id = "r2"
    /\ result[w].top_match[1].recording_id = "r2"
    /\ result[w].matches[1].confidence = "high"
    /\ result[w].matches[2].confidence = "medium"

\* C6: with a credential and an oracle call that returns, the status is
\* not_found exactly when the oracle's sequence is empty and found exactly
\* when it is not; an empty answer is never an error.
C6_NotFoundIffEmpty ==
  \A w \in Workers :
    (Returned(w) /\ api_key # "" /\ answer[w].kind = "ok") =>
      /\ result[w].status = "not_found" <=> answer[w].results = <<>>
      /\ result[w].status = "found" <=> answer[w].results # <<>>
      /\ result[w].status # "error"

C6_Witness ==
  \E w \in Workers :
    /\ Returned(w)
    /\ api_key # ""
    /\ answer[w].kind = "ok"
    /\ answer[w].results = <<>>
    /\ result[w].status = "not_found"

\* C7: the tier of a candidate is decided by its raw score: high from 0.8,
\* medium from 0.5 to below 0.8, low below 0.5, whatever the rounded
\* match_score shown beside it.
C7_TierOfRawScore ==
  cand_out # <<>> =>
    /\ cand_out[1].confidence \in {"high", "medium", "low"}
    /\ cand_out[1].confidence = "high" <=> score_in >= 800
    /\ cand_out[1].confidence = "medium" <=> (500 <= score_in /\ score_in < 800)
    /\ cand_out[1].confidence = "low" <=> score_in < 500

C7_Witness ==
  /\ cand_out # <<>>
  /\ score_in = 796
  /\ cand_out[1].match_score = 80
  /\ cand_out[1].confidence = "medium"

\* name is <stem>.<ext> with a non-empty stem, letters compared without case
HasExtension(name, ext) ==
  LET n == Len(name)
      k == Len(ext)
  IN  /\ n > k + 1
      /\ name[n - k] = "."
      /\ \A i \in 1..k :
           \/ name[n - k + i] = ext[i]
           \/ \E l \in 1..26 :
                UpperLetters[l] = name[n - k + i] /\ LowerLetters[l] = ext[i]

AllowList ==
  { <<"m","p","3">>, <<"f","l","a","c">>, <<"o","g","g">>, <<"m","4","a">>,
    <<"w","a","v">>, <<"w","m","a">>, <<"a","i","f","f">>, <<"a","a","c">> }

\* C8: the Format Gate answers true exactly for the filenames whose
\* extension, compared without case, is mp3, flac, ogg, m4a, wav, wma, aiff
\* or aac; every other filename gets false, as an ordinary answer.
C8_FormatGate ==
  gate_out # <<>> =>
    /\ gate_out[1] \in BOOLEAN
    /\ gate_out[1] <=> \E ext \in AllowList : HasExtension(gate_in, ext)

C8_Witness ==
  /\ gate_in = <<"c",".","A","a","c">>
  /\ gate_out = <<TRUE>>

\* C9: matches has one entry per oracle tuple, in the oracle's order, each
\* with the tuple's recording id, title and artist as received.
C9_OrderPreserved ==
  \A w \in Workers :
    result[w].status = "found" =>
      /\ Len(result[w].matches) = Len(answer[w].results)
      /\ \A i \in 1..Len(answer[w].results) :
           /\ result[w].matches[i].recording_id = answer[w].results[i].recording_id
           /\ result[w].matches[i].title = answer[w].results[i].title
           /\ result[w].matches[i].artist = answer[w].results[i].artist

C9_Witness ==
  \E w \in Workers :
    /\ Returned(w)
    /\ result[w].status = "found"
    /\ Len(result[w].matches) = 2
    /\ answer[w].results[1].score < answer[w].results[2].score
    /\ answer[w].results[1].title = ""
    /\ result[w].matches[1].title = ""
    /\ result[w].matches[1].match_score < result[w].matches[2].match_score

\* C10: requests in flight together do not touch each other: a call removes
\* nothing but the scratch file made for its own request, and the file an
\* oracle call is reading is not removed from under it.
C10_Independent ==
  \A w \in Workers :
    /\ (\E v \in Workers \ {w} : InFlight(w) /\ InFlight(v)) =>
         removed[w] \subseteq {temp_path[w]}
    /\ pc[w] = "oracle" => Exists(file_path[w])

====
